---- MODULE Spec2Model ----
(***************************************************************************)
(* Model of the Moneybird -> Slack bridge (app.py, moneybird.py,           *)
(* slack_notifier.py, journal_ai.py).                                      *)
(*                                                                         *)
(* The program keeps no state of its own between requests: every handler   *)
(* works on its request and on what the two platforms answer.  The model   *)
(* therefore has one variable per activity:                                *)
(*   norm   the last call of extract_doc_info (input and output)           *)
(*   match  the last call of find_payment_candidates                       *)
(*   req    the last HTTP request handled, with its response and the       *)
(*          downstream calls its handler made                              *)
(*   units  the background threads started by the webhook handler          *)
(*                                                                         *)
(* Python values: strings are TLA+ strings, None is the token PyNone, a    *)
(* dict is a function whose DOMAIN is the set of keys present.             *)
(***************************************************************************)
EXTENDS Integers, Sequences, FiniteSets, TLC

VARIABLES norm, match, req, units

vars == <<norm, match, req, units>>

----------------------------------------------------------------------------
(* Python values *)

PyNone == "<None>"

EmptyDict == [k \in {} |-> ""]

\* dict.get(k): the value, None when the key is absent
Get(d, k) == IF k \in DOMAIN d THEN d[k] ELSE PyNone

\* dict.get(k, default)
GetD(d, k, default) == IF k \in DOMAIN d THEN d[k] ELSE default

\* truth value of a str-or-None value: None and "" are falsy
Truthy(v) == v # PyNone /\ v # ""

\* a or b, on str-or-None values
Or(a, b) == IF Truthy(a) THEN a ELSE b

Abs(n) == IF n < 0 THEN -n ELSE n

Min(a, b) == IF a < b THEN a ELSE b

----------------------------------------------------------------------------
(* Document Normalizer: app.py extract_doc_info *)

\* contact_name, as the if / elif of the code resolves it
ContactName(raw) ==
    IF "contact" \in DOMAIN raw /\ DOMAIN raw["contact"] # {}
    THEN Or(Get(raw["contact"], "company_name"), GetD(raw["contact"], "firstname", ""))
    ELSE IF Truthy(Get(raw, "contact_id"))
         THEN GetD(raw, "contact_id", "")
         ELSE ""

\* amount = raw.get("total_amount") or raw.get("total_amount_incl_tax") or "0"
DocAmount(raw) ==
    Or(Get(raw, "total_amount"), Or(Get(raw, "total_amount_incl_tax"), "0"))

\* one entry of line_items
LineItem(item) ==
    [description |-> GetD(item, "description", ""),
     total_amount |-> Or(Get(item, "total_amount_incl_tax"), GetD(item, "total_amount", ""))]

LineItems(raw) ==
    LET details == IF "details" \in DOMAIN raw THEN raw["details"] ELSE <<>>
    IN  [i \in 1..Len(details) |-> LineItem(details[i])]

extract_doc_info(raw, doc_type) ==
    [id          |-> Get(raw, "id"),
     type        |-> doc_type,
     contact     |-> ContactName(raw),
     date        |-> Or(Get(raw, "date"), GetD(raw, "invoice_date", "")),
     amount      |-> DocAmount(raw),
     currency    |-> Or(Get(raw, "currency"), "EUR"),
     description |-> Or(Get(raw, "reference"), Or(Get(raw, "invoice_sequence_identifier"), "")),
     line_items  |-> LineItems(raw),
     attachments |-> IF "attachments" \in DOMAIN raw THEN raw["attachments"] ELSE <<>>]

----------------------------------------------------------------------------
(* Payment Matcher: moneybird.py get_unreconciled_payments,                *)
(* find_payment_candidates                                                 *)

\* Values of a transaction's amount field that are not str: JSON null and a
\* JSON number.  Neither has a .replace method.
PyFloat100 == "<float 100.0>"

NonStr == {PyNone, PyFloat100}

\* The amount strings of the model.
AmountStrings ==
    {"0", "1.15", "99.00", "100.00", "100,10", "101.00", "101.01", "abc", "nan", "inf"}

\* s.replace(",", ".") on the strings of the model
ReplaceComma(s) == IF s = "100,10" THEN "100.10" ELSE s

\* int(float(s) * 100) in IEEE-754 double arithmetic, on the strings of the
\* model after ReplaceComma: cents is the int, exc the exception raised.
\* float("1.15") * 100 is 114.99999999999999, which int() truncates to 114;
\* float("abc") raises ValueError; int(nan) raises ValueError;
\* int(inf) raises OverflowError.
IntFloatTimes100(s) ==
    CASE s = "0"      -> [exc |-> "", cents |-> 0]
      [] s = "1.15"   -> [exc |-> "", cents |-> 114]
      [] s = "99.00"  -> [exc |-> "", cents |-> 9900]
      [] s = "100.00" -> [exc |-> "", cents |-> 10000]
      [] s = "100.10" -> [exc |-> "", cents |-> 10010]
      [] s = "101.00" -> [exc |-> "", cents |-> 10100]
      [] s = "101.01" -> [exc |-> "", cents |-> 10101]
      [] s = "nan"    -> [exc |-> "ValueError", cents |-> 0]
      [] s = "inf"    -> [exc |-> "OverflowError", cents |-> 0]
      [] OTHER        -> [exc |-> "ValueError", cents |-> 0]

\* int(float(v.replace(",", ".")) * 100) for a Python value v
ParseAmount(v) ==
    IF v \in NonStr
    THEN [exc |-> "AttributeError", cents |-> 0]
    ELSE IntFloatTimes100(ReplaceComma(v))

\* the except clause of the loop: (ValueError, AttributeError)
Caught(exc) == exc \in {"ValueError", "AttributeError"}

\* the comparison with the bound left out
WithinToleranceStrict(m_amount, amount_cents, tolerance_cents) ==
    Abs(m_amount - amount_cents) < tolerance_cents

\* abs(m_amount - amount_cents) <= tolerance_cents
WithinTolerance(m_amount, amount_cents, tolerance_cents) ==
    Abs(m_amount - amount_cents) <= tolerance_cents

\* the dict appended for a transaction m
Candidate(m) ==
    [id          |-> Get(m, "id"),
     date        |-> Get(m, "date"),
     amount      |-> Get(m, "amount"),
     description |-> Or(Get(m, "message"), Or(Get(m, "description"), "")),
     contact     |-> IF "contact" \in DOMAIN m /\ DOMAIN m["contact"] # {}
                     THEN Get(m["contact"], "company_name")
                     ELSE ""]

\* what _get("financial_mutations") gave: a list, something that is not a
\* list, or an exception; the last two become []
get_unreconciled_payments(api) ==
    IF api.outcome = "list" THEN api.mutations ELSE <<>>

\* the for loop from transaction i on, with the candidates collected so far
RECURSIVE CandidateLoop(_, _, _, _, _)
CandidateLoop(mutations, i, candidates, amount_cents, tolerance_cents) ==
    IF i > Len(mutations)
    THEN [exc |-> "", candidates |-> candidates]
    ELSE LET m == mutations[i]
             p == ParseAmount(GetD(m, "amount", "0"))
         IN  IF p.exc # ""
             THEN IF Caught(p.exc)
                  THEN CandidateLoop(mutations, i + 1, candidates, amount_cents, tolerance_cents)
                  ELSE [exc |-> p.exc, candidates |-> <<>>]
             ELSE IF WithinTolerance(p.cents, amount_cents, tolerance_cents)
                  THEN CandidateLoop(mutations, i + 1, Append(candidates, Candidate(m)),
                                     amount_cents, tolerance_cents)
                  ELSE CandidateLoop(mutations, i + 1, candidates, amount_cents, tolerance_cents)

find_payment_candidates(api, amount_cents, contact_name, tolerance_cents) ==
    CandidateLoop(get_unreconciled_payments(api), 1, <<>>, amount_cents, tolerance_cents)

----------------------------------------------------------------------------
(* Interactive callbacks: app.py verify_slack_signature, slack_actions *)

\* A str that may hold the delimiter ":" is the sequence of its ":"-free
\* segments: "receipt:123" is <<"receipt", "123">>, "" is <<"">>.

\* s.split(":", maxsplit): at most maxsplit + 1 parts, the last one keeping
\* every further delimiter
Split(s, maxsplit) ==
    IF Len(s) <= maxsplit + 1
    THEN [i \in 1..Len(s) |-> <<s[i]>>]
    ELSE [i \in 1..(maxsplit + 1) |->
            IF i <= maxsplit THEN <<s[i]>> ELSE SubSeq(s, maxsplit + 1, Len(s))]

\* int(s) on the header values of the model: missing ("") and "abc" raise
PyInt(s) ==
    CASE s = "699"  -> [exc |-> "", val |-> 699]
      [] s = "700"  -> [exc |-> "", val |-> 700]
      [] s = "1000" -> [exc |-> "", val |-> 1000]
      [] s = "1300" -> [exc |-> "", val |-> 1300]
      [] s = "1301" -> [exc |-> "", val |-> 1301]
      [] OTHER      -> [exc |-> "ValueError", val |-> 0]

\* the freshness window in seconds
MaxSkew == 300

SLACK_SIGNING_SECRET == "secret"

\* "v0=" + HMAC-SHA256(key, "v0:{timestamp}:{body}").hexdigest(): a value that
\* is equal for equal key, timestamp and body only
Sign(key, timestamp, body) ==
    [version |-> "v0=", key |-> key, timestamp |-> timestamp, body |-> body]

\* the header X-Slack-Signature missing: ""
NoSignature == [version |-> "", key |-> "", timestamp |-> "", body |-> EmptyDict]

\* the clock is read in half seconds (time.time() is a float), the header
\* in whole seconds: abs(time.time() - int(timestamp)) > 300
Stale(now2, t) == Abs(now2 - 2 * t) > 2 * MaxSkew

\* exc: the exception int() raised; ok: the value returned
verify_slack_signature(r) ==
    LET t == PyInt(r.timestamp)
    IN  IF t.exc # "" THEN [exc |-> t.exc, ok |-> FALSE]
        ELSE IF Stale(r.now2, t.val) THEN [exc |-> "", ok |-> FALSE]
        ELSE [exc |-> "", ok |-> Sign(SLACK_SIGNING_SECRET, r.timestamp, r.body) = r.signature]

\* DOC_TYPE_LABEL.get(doc_type, "Document")
Label(doc_type) ==
    CASE doc_type = "receipt" -> "Receipt"
      [] doc_type = "purchase_invoice" -> "Purchase Invoice"
      [] OTHER -> "Document"

\* payload.get("container", {}).get(k1) or payload.get(k2, {}).get(k3, "")
Located(payload, k1, k2, k3) ==
    Or(Get(GetD(payload, "container", EmptyDict), k1),
       GetD(GetD(payload, k2, EmptyDict), k3, ""))

Call(fn, platform, doc_id, arg, ok) ==
    [fn |-> fn, platform |-> platform, doc_id |-> doc_id, arg |-> arg, ok |-> ok]

\* the fetch of a callback: get_receipt for "receipt", get_purchase_invoice
\* for every other kind
FetchFn(doc_type) == IF doc_type = "receipt" THEN "get_receipt" ELSE "get_purchase_invoice"

\* a try block whose message update is outside the reach of the exception
\* of the mutation: the message is updated although the mutation raised
TryBlockUpdatingAnyway(payload, doc_type, doc_id, mutation_id, mutateFn, updateFn, ext) ==
    LET channel == Located(payload, "channel_id", "channel", "id")
        ts      == Located(payload, "message_ts", "message", "ts")
        fetch   == Call(FetchFn(doc_type), "accounting", doc_id, <<>>, ext.fetch_ok)
        info    == extract_doc_info(ext.raw, doc_type)
        mutate  == Call(mutateFn, "accounting", doc_id, mutation_id, ext.mutate_ok)
        update  == Call(updateFn, "chat", doc_id,
                        <<channel, ts, Label(doc_type), info.contact>>, ext.update_ok)
    IN  IF ~ext.fetch_ok THEN [calls |-> <<fetch>>, built |-> <<>>]
        ELSE IF mutateFn = "" THEN [calls |-> <<fetch, update>>, built |-> <<info>>]
        ELSE [calls |-> <<fetch, mutate, update>>, built |-> <<info>>]

\* the body of one try block: fetch, normalize, mutate (when mutateFn is
\* not ""), update the chat message; the first call that raises ends it.
\* ext gives what the platforms do: fetch_ok, raw, mutate_ok, update_ok.
TryBlock(payload, doc_type, doc_id, mutation_id, mutateFn, updateFn, ext) ==
    LET channel == Located(payload, "channel_id", "channel", "id")
        ts      == Located(payload, "message_ts", "message", "ts")
        fetch   == Call(FetchFn(doc_type), "accounting", doc_id, <<>>, ext.fetch_ok)
        info    == extract_doc_info(ext.raw, doc_type)
        mutate  == Call(mutateFn, "accounting", doc_id, mutation_id, ext.mutate_ok)
        update  == Call(updateFn, "chat", doc_id,
                        <<channel, ts, Label(doc_type), info.contact>>, ext.update_ok)
    IN  IF ~ext.fetch_ok THEN [calls |-> <<fetch>>, built |-> <<>>]
        ELSE IF mutateFn = "" THEN [calls |-> <<fetch, update>>, built |-> <<info>>]
        ELSE IF ~ext.mutate_ok THEN [calls |-> <<fetch, mutate>>, built |-> <<info>>]
        ELSE [calls |-> <<fetch, mutate, update>>, built |-> <<info>>]

Response(status, body, work) ==
    [status |-> status, body |-> body, calls |-> work.calls, built |-> work.built]

NoWork == [calls |-> <<>>, built |-> <<>>]

\* the three branches on action_id, for a payload with a first action
Dispatch(payload, action, ext) ==
    LET action_id == Get(action, "action_id")
        value     == GetD(action, "value", [isstr |-> TRUE, segs |-> <<"">>])
    IN  IF action_id \notin {"book_document", "skip_document", "link_payment"}
        THEN Response(200, "{}", NoWork)
        ELSE IF ~value.isstr
        THEN Response(500, "AttributeError", NoWork)
        ELSE IF action_id = "link_payment"
        THEN LET parts == Split(value.segs, 2)
             IN  IF Len(parts) = 3
                 THEN LET doc_type == parts[1][1]
                      IN  Response(200, "{}",
                             TryBlock(payload, doc_type, parts[2], parts[3],
                                 IF doc_type = "receipt" THEN "link_payment_to_receipt"
                                 ELSE "link_payment_to_purchase_invoice",
                                 "update_message_payment_linked", ext))
                 ELSE Response(200, "{}", NoWork)
        ELSE LET parts == Split(value.segs, 1)
             IN  IF Len(parts) = 2
                 THEN LET doc_type == parts[1][1]
                      IN  Response(200, "{}",
                             IF action_id = "book_document"
                             THEN TryBlock(payload, doc_type, parts[2], <<>>,
                                      IF doc_type = "receipt" THEN "book_receipt"
                                      ELSE "book_purchase_invoice",
                                      "update_message_booked", ext)
                             ELSE TryBlock(payload, doc_type, parts[2], <<>>, "",
                                      "update_message_skipped", ext))
                 ELSE Response(200, "{}", NoWork)

\* the handler of POST /slack/actions; an exception no try block catches is
\* answered by the framework with status 500
slack_actions(r, ext) ==
    LET v == verify_slack_signature(r)
    IN  IF v.exc # "" THEN Response(500, v.exc, NoWork)
        ELSE IF ~v.ok THEN Response(403, "invalid signature", NoWork)
        ELSE IF r.body.kind = "invalid_json" THEN Response(500, "JSONDecodeError", NoWork)
        ELSE IF r.body.kind = "json_array" THEN Response(500, "AttributeError", NoWork)
        ELSE LET payload == IF r.body.kind = "missing" THEN EmptyDict ELSE r.body.payload
                 actions == GetD(payload, "actions", <<>>)
             IN  IF actions = <<>> THEN Response(200, "{}", NoWork)
                 ELSE Dispatch(payload, actions[1], ext)

----------------------------------------------------------------------------
(* Document events: app.py webhook, process_document *)

AcceptedActions == {"created", "updated", "document_saved"}

\* the mapping with the test of the action left out
ClassifyAnyAction(entity_type, action) ==
    IF entity_type = "Receipt" THEN "receipt"
    ELSE IF entity_type = "PurchaseInvoice" THEN "purchase_invoice"
    ELSE ""

\* the mapping of (entity_type, action) to a document kind; "" is ignored
Classify(entity_type, action) ==
    IF entity_type = "Receipt" /\ action \in AcceptedActions THEN "receipt"
    ELSE IF entity_type = "PurchaseInvoice" /\ action \in AcceptedActions THEN "purchase_invoice"
    ELSE ""

\* the handler of /webhook.  request.get_json(force=True) answers a body that
\* is not JSON with 400; a JSON value that is falsy becomes {}; a JSON array
\* has no .get, which the framework answers with 500.  start is the
\* (doc_type, entity_id) of the thread started, or <<>>.
webhook(r) ==
    IF r.method = "GET" THEN [status |-> 200, body |-> "ok", start |-> <<>>]
    ELSE IF r.body.kind = "invalid_json" THEN [status |-> 400, body |-> "BadRequest", start |-> <<>>]
    ELSE IF r.body.kind = "json_array" THEN [status |-> 500, body |-> "AttributeError", start |-> <<>>]
    ELSE LET payload     == IF r.body.kind = "json_null" THEN EmptyDict ELSE r.body.payload
             entity_type == GetD(payload, "entity_type", "")
             action      == GetD(payload, "action", "")
             entity_id   == GetD(payload, "entity_id", "")
             doc_type    == Classify(entity_type, action)
         IN  IF doc_type = ""
             THEN [status |-> 200, body |-> "ignored", start |-> <<>>]
             ELSE [status |-> 200, body |-> "ok", start |-> <<doc_type, entity_id>>]

\* a thread at the start of process_document
NewUnit(doc_type, doc_id) ==
    [doc_type |-> doc_type, doc_id |-> doc_id, pc |-> "fetch", doc_info |-> <<>>,
     permalink |-> PyNone, candidates |-> <<>>, verdicts |-> 0, posts |-> 0]

\* the except clause of process_document: the error is printed, the thread
\* ends and its locals are gone
Failed(u) ==
    [u EXCEPT !.pc = "failed", !.doc_info = <<>>, !.permalink = PyNone, !.candidates = <<>>]

\* fetch and normalize: get_receipt, on any exception get_typeless_document,
\* for a receipt; get_purchase_invoice otherwise.  fetched is <<>> when the
\* (last) fetch raised, else <<raw>>.
Fetched(u, fetched) ==
    IF fetched = <<>> THEN Failed(u)
    ELSE LET info == extract_doc_info(fetched[1], u.doc_type)
         IN  [u EXCEPT !.doc_info = <<info>>,
                       !.pc = IF info.attachments # <<>> THEN "attach" ELSE "journal"]

\* the first attachment is downloaded and uploaded: upload_attachment gives
\* the permalink, or None on SlackApiError; any other exception ends the thread
Attached(u, outcome) ==
    CASE outcome = "uploaded"      -> [u EXCEPT !.pc = "journal", !.permalink = "permalink"]
      [] outcome = "SlackApiError" -> [u EXCEPT !.pc = "journal", !.permalink = PyNone]
      [] OTHER                     -> Failed(u)

\* journal_ai.suggest_journal_entry returned or raised
Journaled(u, ok) == IF ok THEN [u EXCEPT !.pc = "match"] ELSE Failed(u)

\* the default of tolerance_cents
DefaultTolerance == 100

\* int(float(doc_info["amount"].replace(",", ".")) * 100), 0 on ValueError
\* and AttributeError; exc is an exception that is not caught here
AmountCents(amount) ==
    LET p == ParseAmount(amount)
    IN  IF p.exc = "" THEN p
        ELSE IF Caught(p.exc) THEN [exc |-> "", cents |-> 0]
        ELSE p

\* the number of candidates that get a verdict: candidates[:3]
VerdictLimit == 3

\* the candidates are matched
Matched(u, api) ==
    LET a == AmountCents(u.doc_info[1].amount)
        r == find_payment_candidates(api, a.cents, u.doc_info[1].contact, DefaultTolerance)
    IN  IF a.exc # "" \/ r.exc # "" THEN Failed(u)
        ELSE [u EXCEPT !.candidates = r.candidates,
                       !.pc = IF r.candidates = <<>> THEN "post" ELSE "verdict"]

\* one pass of the loop over candidates[:3]: suggest_payment_match returned
\* the text verdict, or raised (verdict = "")
Verdicted(u, verdict) ==
    IF verdict = "" THEN [Failed(u) EXCEPT !.verdicts = u.verdicts + 1]
    ELSE LET k == u.verdicts + 1
         IN  [u EXCEPT !.verdicts = k,
                       !.candidates[k] = u.candidates[k] @@ [verdict |-> verdict],
                       !.pc = IF k = Min(VerdictLimit, Len(u.candidates)) THEN "post" ELSE "verdict"]

\* a notification call that is made again after it returned: the run posts
\* twice
PostedAndRetried(u, ok) ==
    IF ok THEN [u EXCEPT !.pc = IF u.posts = 0 THEN "post" ELSE "done",
                         !.posts = u.posts + 1]
    ELSE Failed(u)

\* post_document_notification returned or raised; candidates keeps what
\* was handed to it
Posted(u, ok) ==
    IF ok THEN [u EXCEPT !.pc = "done", !.posts = u.posts + 1, !.doc_info = <<>>,
                         !.permalink = PyNone]
    ELSE Failed(u)

----------------------------------------------------------------------------
(* Inputs of the model *)

\* the longest list of unreconciled transactions
MaxMutations == 3

\* a dict with the key k bound to one of vals, or without the key
Opt(k, vals) == {EmptyDict} \cup {k :> v : v \in vals}

\* embedded contacts: empty, without any name, with both names, with a given
\* name only, with a null organization name and a given name
Contacts ==
    {EmptyDict,
     [id |-> "7"],
     [company_name |-> "Acme", firstname |-> "Ann"],
     [firstname |-> "Ann"],
     [company_name |-> PyNone, firstname |-> "Ann"]}

LineEntries ==
    {<<[description |-> "Paper", total_amount |-> "5.00"]>>,
     <<[total_amount_incl_tax |-> "6.05", total_amount |-> "5.00"]>>}

\* raw documents as the accounting platform returns them
RawDocs ==
    {("id" :> "1") @@ c @@ ci @@ ta @@ ti @@ cu @@ da @@ de @@ at :
        c  \in Opt("contact", Contacts),
        ci \in Opt("contact_id", {"c9"}),
        ta \in Opt("total_amount", {PyNone, "", "100.00"}),
        ti \in Opt("total_amount_incl_tax", {PyNone, "", "121.00"}),
        cu \in Opt("currency", {"", "USD"}),
        da \in Opt("date", {"2024-05-01"}),
        de \in Opt("details", LineEntries),
        at \in Opt("attachments", {<<[id |-> "a1"]>>})}

DocTypes == {"receipt", "purchase_invoice"}

\* the amount field of a transaction: absent, a str, null or a number
AmountFields == Opt("amount", (AmountStrings \ {"0"}) \cup NonStr)

\* a list of transactions; the i-th carries the id ToString(i) and the
\* amount field f[i]
MutationList(n, f) == [i \in 1..n |-> ("id" :> ToString(i)) @@ f[i]]

\* what the accounting platform answers to the listing
ApiAnswer(outcome, n, f) ==
    [outcome |-> outcome, mutations |-> IF outcome = "list" THEN MutationList(n, f) ELSE <<>>]

ApiOutcomes == {"list", "not_list", "error"}

Targets == {14, 10000}

Hints == {PyNone, "Acme"}

Tolerances == {0, 100}

\* the raw documents the platform serves to the handlers: a full one and a
\* bare one
ServerRawDocs ==
    {[id |-> "1", contact |-> [company_name |-> "Acme", firstname |-> "Ann"],
      total_amount |-> "100.00", total_amount_incl_tax |-> "121.00",
      attachments |-> <<[id |-> "a1"]>>],
     [id |-> "1", contact_id |-> "c9"]}

\* the header X-Slack-Request-Timestamp: missing, not a number, and seconds
\* around the clock readings 1000.0 and 1000.5
TimestampHeaders == {"", "abc", "699", "700", "1000", "1300", "1301"}

ClockReadings == {2000, 2001}

\* the value of a button: a str (as its segments) or JSON null
ActionValues ==
    {[isstr |-> TRUE, segs |-> v] :
        v \in {<<"receipt">>, <<"receipt", "123">>, <<"purchase_invoice", "123">>,
               <<"foo", "123">>, <<"receipt", "123", "456">>,
               <<"purchase_invoice", "123", "456">>, <<"receipt", "123", "456", "789">>}}
      \cup {[isstr |-> FALSE, segs |-> <<>>]}

ActionIds == {"book_document", "skip_document", "link_payment", "open_url"}

Payloads ==
    {a @@ c :
        a \in Opt("actions", {<<>>} \cup {<<[action_id |-> id, value |-> v]>> :
                                            id \in ActionIds, v \in ActionValues}),
        c \in Opt("container", {[channel_id |-> "C1", message_ts |-> "17.1"]})}

\* the form field "payload": missing, not JSON, a JSON array, a JSON object
Bodies ==
    {[kind |-> k, payload |-> EmptyDict] : k \in {"missing", "invalid_json", "json_array"}}
        \cup {[kind |-> "object", payload |-> p] : p \in Payloads}

TamperedBody == [kind |-> "object", payload |-> [tampered |-> "yes"]]

\* the header X-Slack-Signature for a request: missing, the sender's own
\* signature, one made with another key, one made for another timestamp or
\* for another body
Signatures(timestamp, body) ==
    {NoSignature,
     Sign(SLACK_SIGNING_SECRET, timestamp, body),
     Sign("other key", timestamp, body),
     Sign(SLACK_SIGNING_SECRET, "1000", body),
     Sign(SLACK_SIGNING_SECRET, timestamp, TamperedBody)}

\* what the platforms do during one callback
Externals ==
    {[fetch_ok |-> f, raw |-> d, mutate_ok |-> m, update_ok |-> u] :
        f \in BOOLEAN, d \in ServerRawDocs, m \in BOOLEAN, u \in BOOLEAN}

SlackRequests ==
    UNION {{[endpoint |-> "slack_actions", handled |-> FALSE, now2 |-> n, timestamp |-> t,
             body |-> b, signature |-> g,
             status |-> 0, response |-> "", calls |-> <<>>, built |-> <<>>] :
               n \in ClockReadings, g \in Signatures(t, b)} :
            t \in TimestampHeaders, b \in Bodies}

\* the most threads the model starts
MaxUnits == 2

\* the lists the platform serves to a thread: none, one match, five
\* transactions of which four match 10000, one whose amount overflows
UnitMutationLists ==
    {[i \in 1..Len(a) |-> [id |-> ToString(i), amount |-> a[i]]] :
        a \in {<<>>, <<"100.00">>, <<"101.01", "100.00", "99.00", "101.00", "100,10">>,
               <<"inf">>}}

UnitApiAnswers ==
    {[outcome |-> "list", mutations |-> l] : l \in UnitMutationLists}
        \cup {[outcome |-> "error", mutations |-> <<>>]}

Verdicts == {"YES, same amount.", "NO, other vendor."}

WebhookBodies ==
    {[kind |-> k, payload |-> EmptyDict] : k \in {"invalid_json", "json_array", "json_null"}}
        \cup {[kind |-> "object", payload |-> [entity_type |-> e, action |-> a, entity_id |-> "1"]] :
                e \in {"Receipt", "PurchaseInvoice", "Contact"},
                a \in {"created", "updated", "document_saved", "destroyed"}}

\* a GET carries no body that is read
WebhookRequests ==
    {[endpoint |-> "webhook", method |-> "POST", body |-> b] : b \in WebhookBodies}
        \cup {[endpoint |-> "webhook", method |-> "GET",
                body |-> [kind |-> "json_null", payload |-> EmptyDict]]}

----------------------------------------------------------------------------
(* State *)

NormIdle == [called |-> FALSE]

MatchIdle == [called |-> FALSE]

ReqIdle == [endpoint |-> "none"]

\* POST /slack/actions is handled: the response and the calls made
SlackActions ==
    /\ req.endpoint = "slack_actions"
    /\ ~req.handled
    /\ \E ext \in Externals :
          LET resp == slack_actions(req, ext)
          IN  req' = [req EXCEPT !.handled = TRUE, !.status = resp.status,
                                 !.response = resp.body, !.calls = resp.calls,
                                 !.built = resp.built]
    /\ UNCHANGED <<norm, match, units>>

\* the normalizer is applied to the raw document it was given
ExtractDocInfo ==
    /\ ~norm.called
    /\ norm' = [norm EXCEPT !.called = TRUE,
                            !.doc_info = extract_doc_info(norm.raw, norm.doc_type)]
    /\ UNCHANGED <<match, req, units>>

\* the matcher is applied to its arguments and to the platform's answer
FindPaymentCandidates ==
    /\ ~match.called
    /\ match' = [match EXCEPT !.called = TRUE,
                              !.result = find_payment_candidates(match.api, match.amount_cents,
                                             match.contact_name, match.tolerance_cents)]
    /\ UNCHANGED <<norm, req, units>>

InitNormalizer ==
    /\ norm \in {[called |-> FALSE, raw |-> raw, doc_type |-> doc_type, doc_info |-> EmptyDict] :
                    raw \in RawDocs, doc_type \in DocTypes}
    /\ match = MatchIdle
    /\ req = ReqIdle
    /\ units = <<>>

InitMatcher ==
    /\ norm = NormIdle
    /\ \E n \in 0..MaxMutations, outcome \in ApiOutcomes :
          /\ outcome # "list" => n = 0
          /\ \E f \in [1..n -> AmountFields], amount_cents \in Targets,
                contact_name \in Hints, tolerance_cents \in Tolerances :
                match = [called |-> FALSE, api |-> ApiAnswer(outcome, n, f),
                         amount_cents |-> amount_cents, contact_name |-> contact_name,
                         tolerance_cents |-> tolerance_cents,
                         result |-> [exc |-> "", candidates |-> <<>>]]
    /\ req = ReqIdle
    /\ units = <<>>

\* /webhook is handled: the response, and the thread started.  started is
\* the index of that thread in units, 0 when none was started.
Webhook ==
    /\ \E r \in WebhookRequests :
          LET resp == webhook(r)
          IN  /\ resp.start # <<>> => Len(units) < MaxUnits
              /\ units' = IF resp.start = <<>> THEN units
                          ELSE Append(units, NewUnit(resp.start[1], resp.start[2]))
              /\ req' = [endpoint |-> "webhook", method |-> r.method, body |-> r.body,
                         status |-> resp.status, response |-> resp.body, calls |-> <<>>,
                         started |-> IF resp.start = <<>> THEN 0 ELSE Len(units) + 1]
    /\ UNCHANGED <<norm, match>>

UnitFetch(i) ==
    /\ units[i].pc = "fetch"
    /\ \E fetched \in {<<>>} \cup {<<d>> : d \in ServerRawDocs} :
          units' = [units EXCEPT ![i] = Fetched(units[i], fetched)]
    /\ UNCHANGED <<norm, match, req>>

UnitAttach(i) ==
    /\ units[i].pc = "attach"
    /\ \E outcome \in {"uploaded", "SlackApiError", "raised"} :
          units' = [units EXCEPT ![i] = Attached(units[i], outcome)]
    /\ UNCHANGED <<norm, match, req>>

UnitJournal(i) ==
    /\ units[i].pc = "journal"
    /\ \E ok \in BOOLEAN : units' = [units EXCEPT ![i] = Journaled(units[i], ok)]
    /\ UNCHANGED <<norm, match, req>>

UnitMatch(i) ==
    /\ units[i].pc = "match"
    /\ \E api \in UnitApiAnswers : units' = [units EXCEPT ![i] = Matched(units[i], api)]
    /\ UNCHANGED <<norm, match, req>>

UnitVerdict(i) ==
    /\ units[i].pc = "verdict"
    /\ \E verdict \in Verdicts \cup {""} :
          units' = [units EXCEPT ![i] = Verdicted(units[i], verdict)]
    /\ UNCHANGED <<norm, match, req>>

UnitPost(i) ==
    /\ units[i].pc = "post"
    /\ \E ok \in BOOLEAN : units' = [units EXCEPT ![i] = Posted(units[i], ok)]
    /\ UNCHANGED <<norm, match, req>>

\* one step of one background thread
UnitStep ==
    \E i \in 1..Len(units) :
        \/ UnitFetch(i)
        \/ UnitAttach(i)
        \/ UnitJournal(i)
        \/ UnitMatch(i)
        \/ UnitVerdict(i)
        \/ UnitPost(i)

Init ==
    /\ norm = NormIdle
    /\ match = MatchIdle
    /\ req = ReqIdle
    /\ units = <<>>

Next == Webhook \/ UnitStep

Spec == Init /\ [][Next]_vars

InitActions ==
    /\ norm = NormIdle
    /\ match = MatchIdle
    /\ req \in SlackRequests
    /\ units = <<>>

SpecActions == InitActions /\ [][SlackActions]_vars

SpecNormalizer == InitNormalizer /\ [][ExtractDocInfo]_vars

SpecMatcher == InitMatcher /\ [][FindPaymentCandidates]_vars

----------------------------------------------------------------------------
(* Payment Matcher: properties *)

\* the list the matcher worked on
SourceList == get_unreconciled_payments(match.api)

\* the parse of the i-th transaction of the source list
ParsedAt(i) == ParseAmount(GetD(SourceList[i], "amount", "0"))

\* the positions whose amount parses to an integer within the tolerance of
\* the target
InTolerance ==
    {i \in 1..Len(SourceList) :
        /\ ParsedAt(i).exc = ""
        /\ ParsedAt(i).cents - match.amount_cents <= match.tolerance_cents
        /\ match.amount_cents - ParsedAt(i).cents <= match.tolerance_cents}

\* the position in the source list of a candidate
PositionOf(c) == CHOOSE i \in 1..Len(SourceList) : SourceList[i]["id"] = c.id

Returned == match.called /\ match.result.exc = ""

Unparsable(m) == ParseAmount(GetD(m, "amount", "0")).exc # ""

ParsableOnly(api) ==
    [api EXCEPT !.mutations = SelectSeq(api.mutations, LAMBDA m : ~Unparsable(m))]

\* C7: a transaction whose amount cannot be parsed is skipped without
\* raising, and the result is the result for the source list without the
\* unparsable transactions.
C7_UnparsableSkippedWithoutRaising ==
    match.called =>
        /\ match.result.exc = ""
        /\ match.result = find_payment_candidates(ParsableOnly(match.api), match.amount_cents,
                                match.contact_name, match.tolerance_cents)

----------------------------------------------------------------------------
(* Document Normalizer: properties *)

\* the first truthy value of a sequence of str-or-None values, else ""
RECURSIVE FirstNonEmpty(_)
FirstNonEmpty(vals) ==
    IF vals = <<>> THEN ""
    ELSE IF Truthy(Head(vals)) THEN Head(vals) ELSE FirstNonEmpty(Tail(vals))

EmbeddedContact(raw) == IF "contact" \in DOMAIN raw THEN raw["contact"] ELSE EmptyDict

\* C8: amount is the tax-inclusive total when that is present and non-empty,
\* whatever the plain total is, and "0" when the raw document has neither.
C8_AmountPrefersTaxInclusiveTotal ==
    norm.called =>
        /\ Truthy(Get(norm.raw, "total_amount_incl_tax"))
              => norm.doc_info.amount = norm.raw["total_amount_incl_tax"]
        /\ ({"total_amount", "total_amount_incl_tax"} \cap DOMAIN norm.raw = {})
              => norm.doc_info.amount = "0"

\* C9: counterpartyName is the first non-empty of the embedded contact's
\* organization name, its given name and the referenced contact identifier,
\* else the empty string.
C9_ContactNameIsFirstNonEmptySource ==
    norm.called =>
        norm.doc_info.contact =
            FirstNonEmpty(<<Get(EmbeddedContact(norm.raw), "company_name"),
                            Get(EmbeddedContact(norm.raw), "firstname"),
                            Get(norm.raw, "contact_id")>>)

----------------------------------------------------------------------------
(* Document events: properties *)

\* the last request was a POST /webhook whose body is a JSON object or null
IsEvent(r) ==
    r.endpoint = "webhook" /\ r.method = "POST" /\ r.body.kind \in {"json_null", "object"}

EntityType(r) == IF "entity_type" \in DOMAIN r.body.payload THEN r.body.payload["entity_type"] ELSE ""

EventAction(r) == IF "action" \in DOMAIN r.body.payload THEN r.body.payload["action"] ELSE ""

\* the events that are to be processed
Processable(r) ==
    /\ IsEvent(r)
    /\ EntityType(r) \in {"Receipt", "PurchaseInvoice"}
    /\ EventAction(r) \in {"created", "updated", "document_saved"}

KindFor(entity_type) == IF entity_type = "Receipt" THEN "receipt" ELSE "purchase_invoice"

\* what a step that handles a /webhook request does, read off the state
\* before and after
C3_Step ==
    /\ req'.endpoint = "webhook" =>
          /\ req'.started # 0 => Processable(req')
          /\ IsEvent(req') =>
                /\ req'.started # 0 <=> Processable(req')
                /\ ~Processable(req') => req'.status = 200 /\ req'.response = "ignored"
          /\ req'.calls = <<>>
    /\ (req' # req /\ req'.started = 0) => units' = units
    /\ Len(units') # Len(units) =>
          /\ req' # req
          /\ Processable(req')
          /\ req'.started = Len(units) + 1
          /\ units' = Append(units, NewUnit(KindFor(EntityType(req')),
                                            GetD(req'.body.payload, "entity_id", "")))

\* C3: a POST /webhook event starts a background unit exactly when its
\* (entity_type, action) is in {Receipt, PurchaseInvoice} x {created, updated,
\* document_saved}; the unit's document kind is receipt for Receipt and
\* purchase_invoice for PurchaseInvoice; every other combination is answered
\* "ignored", starts no unit and makes no downstream call.
C3_UnitStartedIffProcessable == [][C3_Step]_vars

\* C3 witness: a PurchaseInvoice / document_saved event was answered and its
\* unit, the second one, is a purchase_invoice unit, after a Receipt unit.
C3_Witness ==
    /\ req.endpoint = "webhook"
    /\ Processable(req)
    /\ EntityType(req) = "PurchaseInvoice"
    /\ EventAction(req) = "document_saved"
    /\ req.started = 2
    /\ Len(units) = 2
    /\ units[1].doc_type = "receipt"
    /\ units[2].doc_type = "purchase_invoice"

\* C4: the response to /webhook is HTTP 200 for every request body, whatever
\* the background unit does.
C4_WebhookAlwaysAnswers200 ==
    req.endpoint = "webhook" => req.status = 200

\* the part of C4 about the background unit: no step of a unit, failing or
\* not, touches the response of a request
C4_UnitsNeverTouchTheResponse == [][UnitStep => req' = req]_vars

----------------------------------------------------------------------------
(* Interactive callbacks: properties *)

Handled == req.endpoint = "slack_actions" /\ req.handled

\* the timestamp header is a number of seconds more than 300 s away from
\* the clock
TimestampTooFarOff ==
    /\ PyInt(req.timestamp).exc = ""
    /\ \/ req.now2 - 2 * PyInt(req.timestamp).val > 600
       \/ 2 * PyInt(req.timestamp).val - req.now2 > 600

SignatureMatches == req.signature = Sign(SLACK_SIGNING_SECRET, req.timestamp, req.body)

\* C1: a callback whose timestamp is more than 300 s off, or whose signature
\* is not the HMAC of 'v0:{timestamp}:{body}', is answered 403 and makes no
\* call to either platform.
C1_StaleOrUnsignedIsRejected ==
    (Handled /\ (TimestampTooFarOff \/ ~SignatureMatches)) =>
        req.status = 403 /\ req.calls = <<>>

\* the part of C1 that the code keeps: a numeric timestamp more than 300 s
\* off is answered 403 without any call, even with the right HMAC
C1_StaleNumericTimestampIsRejected ==
    (Handled /\ TimestampTooFarOff) => req.status = 403 /\ req.calls = <<>>

\* the signature check passes: a numeric, fresh timestamp and the right HMAC
SignatureCheckPasses ==
    PyInt(req.timestamp).exc = "" /\ ~TimestampTooFarOff /\ SignatureMatches

\* C2: every callback is answered 403 when the signature check fails and 200
\* otherwise, never with another status.
C2_StatusIs403Or200 ==
    Handled => req.status = (IF SignatureCheckPasses THEN 200 ELSE 403)

\* the first action of a signed callback whose value is a str
FirstAction == req.body.payload["actions"][1]

SignedAction ==
    /\ Handled
    /\ SignatureCheckPasses
    /\ req.body.kind = "object"
    /\ "actions" \in DOMAIN req.body.payload
    /\ req.body.payload["actions"] # <<>>
    /\ FirstAction["value"].isstr

\* the number of ":"-delimited parts of the value
NumParts == Len(FirstAction["value"].segs)

Malformed ==
    \/ FirstAction["action_id"] \in {"book_document", "skip_document"} /\ NumParts # 2
    \/ FirstAction["action_id"] = "link_payment" /\ NumParts # 3

\* C5: a signed callback whose value has the wrong number of parts for its
\* action, too few or too many, is ignored: no call, response 200; the value
\* "receipt:123" of book_document is decoded as kind receipt and id 123.
C5_MalformedValueIsIgnored ==
    SignedAction =>
        /\ Malformed => req.calls = <<>> /\ req.status = 200
        /\ (FirstAction["action_id"] = "book_document"
              /\ FirstAction["value"].segs = <<"receipt", "123">>)
              => /\ req.calls[1].fn = "get_receipt"
                 /\ req.calls[1].doc_id = <<"123">>
                 /\ \A i \in 1..Len(req.built) : req.built[i].type = "receipt"

\* the canonical documents built so far: by the callback handled, and by
\* the background units
BuiltDocs ==
    (IF Handled THEN {req.built[i] : i \in 1..Len(req.built)} ELSE {})
        \cup UNION {{units[i].doc_info[j] : j \in 1..Len(units[i].doc_info)} : i \in 1..Len(units)}

\* C10: every canonical document built, on every path, has kind receipt or
\* purchase_invoice, a non-null amount and a non-empty currency.
C10_CanonicalDocumentInvariants ==
    \A d \in BuiltDocs :
        /\ d.type \in {"receipt", "purchase_invoice"}
        /\ d.amount # PyNone
        /\ d.currency # ""

----------------------------------------------------------------------------
(* Background units: properties *)

\* the units whose verdict loop is over: the notification is about to be
\* posted, or was posted with candidates handed to it
PastVerdicts(u) == u.pc \in {"post", "done"}

HasVerdict(c) == "verdict" \in DOMAIN c

\* C11: in one run the verdict call is made exactly once for each candidate
\* the matcher returned, before the notification is posted, so that every
\* candidate handed to the notification carries a verdict, whatever the
\* length of the list.
C11_EveryCandidateGetsOneVerdict ==
    \A i \in 1..Len(units) :
        PastVerdicts(units[i]) =>
            /\ units[i].verdicts = Len(units[i].candidates)
            /\ \A k \in 1..Len(units[i].candidates) : HasVerdict(units[i].candidates[k])

\* the part of C11 that the code keeps: one call for each of the first
\* three candidates, which are the ones the notification shows
C11_FirstThreeCandidatesGetOneVerdict ==
    \A i \in 1..Len(units) :
        PastVerdicts(units[i]) =>
            /\ units[i].verdicts = Min(3, Len(units[i].candidates))
            /\ \A k \in 1..Len(units[i].candidates) :
                  HasVerdict(units[i].candidates[k]) <=> k <= 3

\* the units started for the same document as unit i, unit i included
SameDocument(i) ==
    {j \in 1..Len(units) : /\ units[j].doc_type = units[i].doc_type
                           /\ units[j].doc_id = units[i].doc_id}

\* the notifications posted for the document of unit i
Notifications(i) ==
    Cardinality({j \in SameDocument(i) : units[j].posts = 1})

\* one step of the program, seen from the units: a started unit is never
\* dropped or merged with another, a step moves at most one unit and
\* leaves every other unit as it was, whatever that unit is doing, and a
\* notification posted stays posted and is the only one of its unit
C12_Step ==
    /\ Len(units') >= Len(units)
    /\ \A i \in 1..Len(units) :
          /\ units'[i].doc_type = units[i].doc_type
          /\ units'[i].doc_id = units[i].doc_id
          /\ units'[i].posts >= units[i].posts
          /\ units'[i].posts <= 1
          /\ units'[i] # units[i] =>
                \A j \in 1..Len(units) : j # i => units'[j] = units[j]
    /\ Len(units') > Len(units) =>
          /\ Len(units') = Len(units) + 1
          /\ \A i \in 1..Len(units) : units'[i] = units[i]
          /\ units'[Len(units')] =
                NewUnit(units'[Len(units')].doc_type, units'[Len(units')].doc_id)

\* C12: units are neither serialized nor de-duplicated per document: each
\* accepted event starts its own unit even when a unit for the same
\* document exists, the units step in any interleaving without touching one
\* another, and each unit posts at most one notification, so N accepted
\* events for a document give at most N notifications and one event never
\* more than one.
C12_UnitsAreIndependentAndPostAtMostOnce == [][C12_Step]_vars

\* two units for the same document, each of which posted its own
\* notification, with candidates each fetched for itself
C12_Witness ==
    /\ Len(units) = 2
    /\ SameDocument(1) = {1, 2}
    /\ units[1].pc = "done" /\ units[2].pc = "done"
    /\ Notifications(1) = 2
    /\ units[1].candidates # units[2].candidates

\* every interleaving of two units for one document is taken: the second
\* unit is started and runs while the first is still at its fetch
C12_SecondUnitOvertakes ==
    /\ Len(units) = 2
    /\ SameDocument(1) = {1, 2}
    /\ units[1].pc = "fetch"
    /\ units[2].pc = "done"
    /\ units[2].posts = 1

----------------------------------------------------------------------------
(* Interactive callbacks: order of the platform calls *)

\* the functions of moneybird.py that go through _get and through _patch
GetFns == {"get_receipt", "get_purchase_invoice"}

PatchFns == {"book_receipt", "book_purchase_invoice",
             "link_payment_to_receipt", "link_payment_to_purchase_invoice"}

\* the mutation that a terminal message update reports
MutationsOf(updateFn) ==
    CASE updateFn = "update_message_booked" -> {"book_receipt", "book_purchase_invoice"}
      [] updateFn = "update_message_payment_linked" ->
             {"link_payment_to_receipt", "link_payment_to_purchase_invoice"}
      [] OTHER -> {}

TerminalUpdates == {"update_message_booked", "update_message_payment_linked"}

ChatCalls == {k \in 1..Len(req.calls) : req.calls[k].platform = "chat"}

RaisedAccountingCalls ==
    {k \in 1..Len(req.calls) : req.calls[k].platform = "accounting" /\ ~req.calls[k].ok}

\* C13: a book_document or link_payment callback updates the chat message to
\* booked / payment linked only after the fetch and the matching mutation of
\* the same document returned; when the fetch or the mutation raises no
\* chat call is made; a skip_document callback makes no patch call.
C13_UpdateOnlyAfterSuccessfulMutation ==
    Handled =>
        /\ \A k \in ChatCalls :
              req.calls[k].fn \in TerminalUpdates =>
                  /\ k = 3
                  /\ req.calls[1].fn \in GetFns
                  /\ req.calls[1].ok
                  /\ req.calls[2].fn \in MutationsOf(req.calls[k].fn)
                  /\ req.calls[2].ok
                  /\ req.calls[2].doc_id = req.calls[k].doc_id
                  /\ req.calls[1].doc_id = req.calls[k].doc_id
                  /\ Get(FirstAction, "action_id") =
                        (IF req.calls[k].fn = "update_message_booked"
                         THEN "book_document" ELSE "link_payment")
        /\ RaisedAccountingCalls # {} => ChatCalls = {}
        /\ \A k \in 1..Len(req.calls) :
              /\ Get(FirstAction, "action_id") = "skip_document" =>
                    req.calls[k].fn \notin PatchFns
              /\ req.calls[k].fn \in PatchFns =>
                    Get(FirstAction, "action_id") \in {"book_document", "link_payment"}

\* book_document with value "receipt:123": fetched, booked, then the
\* message update
C13_Witness ==
    /\ Handled
    /\ Len(req.calls) = 3
    /\ req.calls[1].fn = "get_receipt" /\ req.calls[1].ok
    /\ req.calls[2].fn = "book_receipt" /\ req.calls[2].ok
    /\ req.calls[2].doc_id = <<"123">>
    /\ req.calls[3].fn = "update_message_booked"

\* link_payment whose mutation raises: the callback ends after the
\* mutation call, without a chat call
C13_MutationRaised ==
    /\ Handled
    /\ Len(req.calls) = 2
    /\ req.calls[2].fn = "link_payment_to_receipt" /\ ~req.calls[2].ok
    /\ ChatCalls = {}

\* skip_document: fetched, then the message update, no patch call
C13_Skipped ==
    /\ Handled
    /\ Len(req.calls) = 2
    /\ req.calls[2].fn = "update_message_skipped"

====
